---- MODULE Spec2Model ----
(***************************************************************************)
(* Model of backend/server.py: the report store with its two backends      *)
(* (MEMORY_REPORTS and the MongoDB collection db.reports) and the request  *)
(* handlers save_report, get_reports, get_report, delete_report,           *)
(* compare_reports and analyze_report.                                     *)
(*                                                                         *)
(* A handler runs without interruption between two awaits (asyncio).       *)
(* get_reports, get_report and delete_report await once, on their single   *)
(* database call, and read nothing before it: each is one action, taken    *)
(* when that call completes.  save_report draws the id and saved_at of the *)
(* SavedReport before it awaits insert_one and stores and answers after    *)
(* it: it is two actions with the durable backend.  compare_reports awaits *)
(* once per requested id and is modelled with one step per await.          *)
(***************************************************************************)
EXTENDS Integers, Sequences, FiniteSets, TLC

VARIABLES
    USE_MONGODB,     \* server.py:28-44, fixed at import time
    MEMORY_REPORTS,  \* server.py:27, list of SavedReport
    mongo,           \* the documents of db.reports, in insertion order
    now,             \* the clock at its last reading by datetime.utcnow
    nextId,          \* the uuid4 values handed out so far (modelled as 1, 2, ...)
    saving,          \* save_report calls awaiting insert_one, with their locals
    deleted,         \* history: ids whose DELETE was answered 200
    cmp,             \* compare_reports in flight: its position and locals
    resp             \* the last completed request and its response

vars == <<USE_MONGODB, MEMORY_REPORTS, mongo, now, nextId, saving, deleted, cmp, resp>>

----------------------------------------------------------------------------
(* Bounds of the model *)

MaxSaves == 2        \* POST /save-report requests served
TicksPerSecond == 2  \* clock ticks in a second (the code's clock has 10^6)
MaxCompareIds == 2   \* longest report_ids list of a compare request
MaxClock == 2        \* last tick of the clock

(* Program constants *)

ListLimit == 100       \* to_list(100)
ImagePrefixLen == 100  \* request.image_base64[:100]

Min(a, b) == IF a < b THEN a ELSE b

\* ids a client may ask for: every id a save can return, and one that no
\* save ever returns
IdSpace == 1..(MaxSaves + 1)

\* the ids of the SavedReports that save_report has returned
Returned == (1..(nextId - 1)) \ { s.saved_report.id : s \in saving }

----------------------------------------------------------------------------
(* datetime.isoformat / datetime.fromisoformat.  A time is a number of      *)
(* clock ticks.  isoformat prints the seconds, and the sub-second part only *)
(* when it is not zero; the printed fields have fixed widths, so comparing  *)
(* two printed times as strings compares them field by field, a string     *)
(* that is a prefix of another being the smaller.                           *)

isoformat(t) ==
    IF t % TicksPerSecond = 0
    THEN <<t \div TicksPerSecond>>
    ELSE <<t \div TicksPerSecond, t % TicksPerSecond>>

fromisoformat(s) ==
    s[1] * TicksPerSecond + (IF Len(s) > 1 THEN s[2] ELSE 0)

\* string order on two printed times
StrLess(a, b) ==
    \/ a[1] < b[1]
    \/ /\ a[1] = b[1]
       /\ \/ Len(a) < Len(b)
          \/ Len(a) > 1 /\ Len(b) > 1 /\ a[2] < b[2]

----------------------------------------------------------------------------
(* The models of server.py:66-91, with the fields the storage handlers     *)
(* read.                                                                   *)

HealthParameter(name, value, status) ==
    [name |-> name, value |-> value, status |-> status]

AnalyzedReport(id, title, parameters, created_at) ==
    [id |-> id, title |-> title, parameters |-> parameters,
     created_at |-> created_at]

SavedReport(id, report, saved_at) ==
    [id |-> id, report_data |-> report, saved_at |-> saved_at]

\* the request bodies of POST /save-report
SampleReports ==
    { AnalyzedReport("a1", "CBC",
          <<HealthParameter("Hemoglobin", "13.5", "normal")>>, 0),
      AnalyzedReport("a2", "Lipid",
          <<HealthParameter("Hemoglobin", "11.0", "low"),
            HealthParameter("LDL", "160", "high"),
            HealthParameter("Hemoglobin", "11.2", "low")>>, 1) }

\* save_report, lines 259-262: model_dump and the two isoformat calls;
\* insert_one adds the document's _id (oid here)
ToDocument(saved_report) ==
    [oid |-> saved_report.id,
     id |-> saved_report.id,
     report_data |-> [saved_report.report_data EXCEPT
                         !.created_at = isoformat(@)],
     saved_at |-> isoformat(saved_report.saved_at)]

\* r.pop("_id", None)
PopId(doc) ==
    [id |-> doc.id, report_data |-> doc.report_data, saved_at |-> doc.saved_at]

\* get_reports lines 285-291 and get_report lines 312-317
FromDocument(doc) ==
    SavedReport(doc.id,
                [doc.report_data EXCEPT !.created_at = fromisoformat(@)],
                fromisoformat(doc.saved_at))

----------------------------------------------------------------------------
(* Helpers on lists *)

Take(s, n) == SubSeq(s, 1, Min(Len(s), n))

RemoveAt(s, i) == SubSeq(s, 1, i - 1) \o SubSeq(s, i + 1, Len(s))

\* index of the first element with this id, 0 when there is none
FirstIndex(s, id) ==
    IF \E i \in 1..Len(s) : s[i].id = id
    THEN CHOOSE i \in 1..Len(s) :
             /\ s[i].id = id
             /\ \A j \in 1..(i - 1) : s[j].id # id
    ELSE 0

IdsOf(s) == { s[i].id : i \in 1..Len(s) }

\* sorted(MEMORY_REPORTS, key=lambda x: x.saved_at, reverse=True): a stable
\* sort, elements with equal keys keep their order
RECURSIVE InsertDesc(_, _)
InsertDesc(sorted, x) ==
    IF sorted = <<>> THEN <<x>>
    ELSE IF Head(sorted).saved_at >= x.saved_at
         THEN <<Head(sorted)>> \o InsertDesc(Tail(sorted), x)
         ELSE <<x>> \o sorted

RECURSIVE SortedDesc(_)
SortedDesc(s) ==
    IF s = <<>> THEN <<>>
    ELSE InsertDesc(SortedDesc(SubSeq(s, 1, Len(s) - 1)), s[Len(s)])

\* db.reports.find().sort("saved_at", -1): the documents in descending
\* string order of saved_at; MongoDB leaves the order of equal keys open
MongoSortedDesc(docs) ==
    LET n == Len(docs)
        Perms == { p \in [1..n -> 1..n] : \A i, j \in 1..n : i # j => p[i] # p[j] }
    IN  { [i \in 1..n |-> docs[p[i]]] : p \in
            { q \in Perms : \A i \in 1..(n - 1) :
                  ~StrLess(docs[q[i]].saved_at, docs[q[i + 1]].saved_at) } }

MapFromDocument(docs) == [i \in 1..Len(docs) |-> FromDocument(docs[i])]

----------------------------------------------------------------------------
(* Responses *)

\* op: the handler; id: its report_id; status: the HTTP status, 0 while the
\* request is being handled; reports: the SavedReports (or, for compare, the
\* documents) of the body; path: the storage branch taken ("failed": the
\* database call of a get or delete raised); t0: the clock
\* when a save request arrived; wasDeleted: whether a DELETE of id had
\* succeeded before; n and trends: the length of a compare request's
\* report_ids and its parameter_trends
NoResp ==
    [op |-> "none", id |-> 0, status |-> 0, reports |-> <<>>,
     path |-> "none", t0 |-> 0, wasDeleted |-> FALSE,
     n |-> 0, trends |-> <<>>]

Resp(op, id, status, reports, path) ==
    [op |-> op, id |-> id, status |-> status, reports |-> reports,
     path |-> path, t0 |-> 0, wasDeleted |-> id \in deleted,
     n |-> 0, trends |-> <<>>]

CompareResp(n, status, reports, trends) ==
    [op |-> "compare", id |-> 0, status |-> status, reports |-> reports,
     path |-> IF USE_MONGODB THEN "durable" ELSE "memory", t0 |-> 0,
     wasDeleted |-> FALSE, n |-> n, trends |-> trends]

Idle == [pc |-> "idle", n |-> 0, k |-> 0, reports |-> <<>>]

----------------------------------------------------------------------------
Init ==
    /\ USE_MONGODB \in BOOLEAN
    /\ MEMORY_REPORTS = <<>>
    /\ mongo = <<>>
    /\ now = 0
    /\ nextId = 1
    /\ saving = {}
    /\ deleted = {}
    /\ cmp = Idle
    /\ resp = NoResp

\* save_report moving the reports held in MEMORY_REPORTS into db.reports
\* once an insert succeeds again
SaveStoresReconcile(saved_report, dbOk) ==
    IF USE_MONGODB
    THEN IF dbOk
         THEN /\ mongo' = [i \in 1..Len(MEMORY_REPORTS) |-> ToDocument(MEMORY_REPORTS[i])]
                          \o Append(mongo, ToDocument(saved_report))
              /\ MEMORY_REPORTS' = <<>>
         ELSE /\ MEMORY_REPORTS' = Append(MEMORY_REPORTS, saved_report)
              /\ UNCHANGED mongo
    ELSE /\ MEMORY_REPORTS' = Append(MEMORY_REPORTS, saved_report)
         /\ UNCHANGED mongo

\* POST /save-report, lines 251-274.  dbOk: insert_one does not raise.
\* "USE_MONGODB and db is not None": db is set exactly when USE_MONGODB is.
SaveStores(saved_report, dbOk) ==
    IF USE_MONGODB
    THEN IF dbOk
         THEN /\ mongo' = Append(mongo, ToDocument(saved_report))
              /\ UNCHANGED MEMORY_REPORTS
         ELSE /\ MEMORY_REPORTS' = Append(MEMORY_REPORTS, saved_report)
              /\ UNCHANGED mongo
    ELSE /\ MEMORY_REPORTS' = Append(MEMORY_REPORTS, saved_report)
         /\ UNCHANGED mongo

SavePath(dbOk) ==
    IF USE_MONGODB THEN (IF dbOk THEN "durable" ELSE "fallback") ELSE "memory"

\* utcnow: the clock has not moved since its last reading, or has moved on
\* by a tick
ClockReadings == { t \in {now, now + 1} : t <= MaxClock }

\* SavedReport taking one fixed id instead of a fresh uuid4
NewSavedReportFixedId(report, uuid, utcnow) == SavedReport(1, report, utcnow)

\* line 255: SavedReport(report_data=report), its id from uuid4 and its
\* saved_at from utcnow
NewSavedReport(report, uuid, utcnow) == SavedReport(uuid, report, utcnow)

\* POST /save-report up to its await: line 255 draws the id and saved_at.
\* With the in-memory backend the handler has no await and this is all of
\* it (lines 268-271); with the durable backend it goes on to line 262 and
\* waits for insert_one, its saved_report and the clock on its arrival (t0)
\* kept in saving.
SaveReport ==
    \E report \in SampleReports, utcnow \in ClockReadings :
        LET saved_report == NewSavedReport(report, nextId, utcnow) IN
        /\ nextId <= MaxSaves
        /\ nextId' = nextId + 1
        /\ now' = utcnow
        /\ IF USE_MONGODB
           THEN /\ saving' = saving \cup {[saved_report |-> saved_report, t0 |-> now]}
                /\ UNCHANGED <<MEMORY_REPORTS, mongo, resp>>
           ELSE /\ SaveStores(saved_report, TRUE)
                /\ resp' = [Resp("save", saved_report.id, 200, <<saved_report>>,
                                 SavePath(TRUE)) EXCEPT !.t0 = now]
                /\ UNCHANGED saving
        /\ UNCHANGED <<USE_MONGODB, deleted, cmp>>

\* save_report from its await on: insert_one returns (dbOk) or raises, lines
\* 262-271
SaveInserted ==
    \E s \in saving, dbOk \in BOOLEAN :
        /\ SaveStores(s.saved_report, dbOk)
        /\ saving' = saving \ {s}
        /\ resp' = [Resp("save", s.saved_report.id, 200, <<s.saved_report>>,
                         SavePath(dbOk)) EXCEPT !.t0 = s.t0]
        /\ UNCHANGED <<USE_MONGODB, now, nextId, deleted, cmp>>

\* get_reports returning MEMORY_REPORTS as it stands, without sorted(...)
ListResultsUnsorted(dbOk) ==
    IF USE_MONGODB /\ dbOk
    THEN { MapFromDocument(Take(docs, ListLimit)) : docs \in MongoSortedDesc(mongo) }
    ELSE { MEMORY_REPORTS }

\* GET /reports, lines 276-302.  dbOk: the find does not raise.
ListResults(dbOk) ==
    IF USE_MONGODB /\ dbOk
    THEN { MapFromDocument(Take(docs, ListLimit)) : docs \in MongoSortedDesc(mongo) }
    ELSE { SortedDesc(MEMORY_REPORTS) }

GetReports ==
    \E dbOk \in BOOLEAN :
        \E result \in ListResults(dbOk) :
            /\ resp' = Resp("list", 0, 200, result, SavePath(dbOk))
            /\ UNCHANGED <<USE_MONGODB, MEMORY_REPORTS, mongo, now, nextId, saving, deleted, cmp>>

\* get_report looking the id up in MEMORY_REPORTS when find_one raises
GetOutcomeMemoryOnFailure(report_id, dbOk) ==
    IF USE_MONGODB /\ dbOk
    THEN LET i == FirstIndex(mongo, report_id) IN
         IF i = 0 THEN Resp("get", report_id, 404, <<>>, "durable")
         ELSE Resp("get", report_id, 200, <<FromDocument(PopId(mongo[i]))>>, "durable")
    ELSE LET i == FirstIndex(MEMORY_REPORTS, report_id)
             path == IF USE_MONGODB THEN "failed" ELSE "memory" IN
         IF i = 0 THEN Resp("get", report_id, 404, <<>>, path)
         ELSE Resp("get", report_id, 200, <<MEMORY_REPORTS[i]>>, path)

\* GET /reports/{report_id}, lines 304-327.  dbOk: find_one does not raise.
GetOutcome(report_id, dbOk) ==
    IF USE_MONGODB
    THEN IF ~dbOk THEN Resp("get", report_id, 500, <<>>, "failed")
         ELSE LET i == FirstIndex(mongo, report_id) IN
              IF i = 0 THEN Resp("get", report_id, 404, <<>>, "durable")
              ELSE Resp("get", report_id, 200, <<FromDocument(PopId(mongo[i]))>>, "durable")
    ELSE LET i == FirstIndex(MEMORY_REPORTS, report_id) IN
         IF i = 0 THEN Resp("get", report_id, 404, <<>>, "memory")
         ELSE Resp("get", report_id, 200, <<MEMORY_REPORTS[i]>>, "memory")

GetReport ==
    \E report_id \in IdSpace, dbOk \in BOOLEAN :
        /\ resp' = GetOutcome(report_id, dbOk)
        /\ UNCHANGED <<USE_MONGODB, MEMORY_REPORTS, mongo, now, nextId, saving, deleted, cmp>>

\* DELETE /reports/{report_id}, lines 329-348.  dbOk: delete_one does not
\* raise.
DeleteStatus(report_id, dbOk) ==
    IF USE_MONGODB
    THEN IF ~dbOk THEN 500
         ELSE IF FirstIndex(mongo, report_id) = 0 THEN 404 ELSE 200
    ELSE IF FirstIndex(MEMORY_REPORTS, report_id) = 0 THEN 404 ELSE 200

\* delete_report removing, with the report found, the one stored last
DeleteStoresAndLast(report_id, dbOk) ==
    IF USE_MONGODB
    THEN /\ mongo' = IF dbOk /\ FirstIndex(mongo, report_id) # 0
                     THEN RemoveAt(mongo, FirstIndex(mongo, report_id))
                     ELSE mongo
         /\ UNCHANGED MEMORY_REPORTS
    ELSE /\ MEMORY_REPORTS' = IF FirstIndex(MEMORY_REPORTS, report_id) # 0
                              THEN SubSeq(RemoveAt(MEMORY_REPORTS,
                                                   FirstIndex(MEMORY_REPORTS, report_id)),
                                          1, Len(MEMORY_REPORTS) - 2)
                              ELSE MEMORY_REPORTS
         /\ UNCHANGED mongo

DeleteStores(report_id, dbOk) ==
    IF USE_MONGODB
    THEN /\ mongo' = IF dbOk /\ FirstIndex(mongo, report_id) # 0
                     THEN RemoveAt(mongo, FirstIndex(mongo, report_id))
                     ELSE mongo
         /\ UNCHANGED MEMORY_REPORTS
    ELSE /\ MEMORY_REPORTS' = IF FirstIndex(MEMORY_REPORTS, report_id) # 0
                              THEN RemoveAt(MEMORY_REPORTS,
                                            FirstIndex(MEMORY_REPORTS, report_id))
                              ELSE MEMORY_REPORTS
         /\ UNCHANGED mongo

DeleteReport ==
    \E report_id \in IdSpace, dbOk \in BOOLEAN :
        LET status == DeleteStatus(report_id, dbOk) IN
        /\ DeleteStores(report_id, dbOk)
        /\ deleted' = IF status = 200 THEN deleted \cup {report_id} ELSE deleted
        /\ resp' = Resp("delete", report_id, status, <<>>,
                        IF USE_MONGODB
                        THEN (IF dbOk THEN "durable" ELSE "failed")
                        ELSE "memory")
        /\ UNCHANGED <<USE_MONGODB, now, nextId, saving, cmp>>

----------------------------------------------------------------------------
(* POST /compare-reports, lines 350-394 *)

\* compare_reports assigning the one-entry list to the name each time
\* instead of appending to it
AddParamOverwrite(all_params, report_date, param) ==
    LET entry == [date |-> report_date, value |-> param.value,
                  status |-> param.status]
    IN  IF param.name \in DOMAIN all_params
        THEN [all_params EXCEPT ![param.name] = <<entry>>]
        ELSE all_params @@ (param.name :> <<entry>>)

\* lines 378-385: one parameter of one report joins the timeline of its name
AddParam(all_params, report_date, param) ==
    LET entry == [date |-> report_date, value |-> param.value,
                  status |-> param.status]
    IN  IF param.name \in DOMAIN all_params
        THEN [all_params EXCEPT ![param.name] = Append(@, entry)]
        ELSE all_params @@ (param.name :> <<entry>>)

\* line 377: for param in report["report_data"]["parameters"]
RECURSIVE AddReportParams(_, _, _)
AddReportParams(all_params, report_date, params) ==
    IF params = <<>> THEN all_params
    ELSE AddReportParams(AddParam(all_params, report_date, Head(params)),
                         report_date, Tail(params))

\* lines 374-377: for report in reports
RECURSIVE GroupParameters(_, _)
GroupParameters(all_params, reports) ==
    IF reports = <<>> THEN all_params
    ELSE GroupParameters(
             AddReportParams(all_params, Head(reports).saved_at,
                             Head(reports).report_data.parameters),
             Tail(reports))

ParameterTrends(reports) == GroupParameters(<<>>, reports)

\* lines 353-359, up to the first await; n is len(request.report_ids).
\* With no database configured db is None and db.reports raises
\* AttributeError, answered 500 at line 394.
\* The handler reads report_ids one element per find_one, and nothing
\* depends on an element before it is read: cmp keeps the length n of the
\* list and the number k of elements read, and each element is drawn when
\* it is read.
CompareStart ==
    \E n \in 0..MaxCompareIds :
        /\ cmp.pc = "idle"
        /\ IF n < 2
           THEN /\ resp' = CompareResp(n, 400, <<>>, <<>>)
                /\ UNCHANGED cmp
           ELSE IF ~USE_MONGODB
           THEN /\ resp' = CompareResp(n, 500, <<>>, <<>>)
                /\ UNCHANGED cmp
           ELSE /\ cmp' = [pc |-> "fetch", n |-> n, k |-> 0, reports |-> <<>>]
                /\ resp' = CompareResp(n, 0, <<>>, <<>>)
        /\ UNCHANGED <<USE_MONGODB, MEMORY_REPORTS, mongo, now, nextId, saving, deleted>>

\* lines 359-362: the result of find_one for report_ids[idx] joins reports
Resolved(reports, report_id) ==
    IF FirstIndex(mongo, report_id) = 0 THEN reports
    ELSE Append(reports, PopId(mongo[FirstIndex(mongo, report_id)]))

\* lines 364-388, after the last await
CompareResult(n, reports) ==
    IF Len(reports) < 2 THEN CompareResp(n, 404, <<>>, <<>>)
    ELSE CompareResp(n, 200, reports, ParameterTrends(reports))

\* one find_one completes.  dbOk: it does not raise.
CompareFetch ==
    \E report_id \in IdSpace, dbOk \in BOOLEAN :
        LET reports == Resolved(cmp.reports, report_id) IN
        /\ cmp.pc = "fetch"
        /\ IF ~dbOk
           THEN /\ resp' = CompareResp(cmp.n, 500, <<>>, <<>>)
                /\ cmp' = Idle
           ELSE IF cmp.k + 1 < cmp.n
           THEN /\ cmp' = [cmp EXCEPT !.k = @ + 1, !.reports = reports]
                /\ UNCHANGED resp
           ELSE /\ resp' = CompareResult(cmp.n, reports)
                /\ cmp' = Idle
        /\ UNCHANGED <<USE_MONGODB, MEMORY_REPORTS, mongo, now, nextId, saving, deleted>>

----------------------------------------------------------------------------
(* JSON values, as json.loads builds them: a str, a number, None, a list or *)
(* a dict, each tagged with its Python type.                                *)

Str(s) == [t |-> "str", s |-> s]
Num(n) == [t |-> "num", n |-> n]
Null == [t |-> "null"]
List(items) == [t |-> "list", items |-> items]
Obj(f) == [t |-> "obj", f |-> f]

Without(f, key) == [k \in (DOMAIN f) \ {key} |-> f[k]]
With(f, key, v) == [k \in (DOMAIN f) \cup {key} |-> IF k = key THEN v ELSE f[k]]

(* The completion text: a sequence of characters, a JSON document standing  *)
(* for the characters that spell it.  No JSON document starts or ends with  *)
(* a backquote, the letter j or white space.                                *)

Ch(c) == [c |-> c]
DocSym(v) == [doc |-> v]
IsDoc(x) == "doc" \in DOMAIN x

WhiteSpace == { Ch(" "), Ch("\n") }
\* a backquote
Bq == Ch("backquote")
Fence == <<Bq, Bq, Bq>>
FenceJson == Fence \o <<Ch("j"), Ch("s"), Ch("o"), Ch("n")>>

\* str.strip, str.startswith, str.endswith and slices
RECURSIVE LStrip(_)
LStrip(text) ==
    IF text # <<>> /\ Head(text) \in WhiteSpace THEN LStrip(Tail(text)) ELSE text

RECURSIVE RStrip(_)
RStrip(text) ==
    IF text # <<>> /\ text[Len(text)] \in WhiteSpace
    THEN RStrip(SubSeq(text, 1, Len(text) - 1))
    ELSE text

Strip(text) == RStrip(LStrip(text))

StartsWith(text, prefix) ==
    Len(text) >= Len(prefix) /\ SubSeq(text, 1, Len(prefix)) = prefix

EndsWith(text, suffix) ==
    /\ Len(text) >= Len(suffix)
    /\ SubSeq(text, Len(text) - Len(suffix) + 1, Len(text)) = suffix

DropFirst(text, n) == SubSeq(text, n + 1, Len(text))
DropLast(text, n) == SubSeq(text, 1, Len(text) - n)

\* analyze_medical_report handing the stripped completion to json.loads with
\* its fence markers left in
CleanResponseKeepFences(response) == Strip(response)

\* analyze_medical_report, lines 156-163
CleanResponse(response) ==
    LET stripped == Strip(response)
        noJson == IF StartsWith(stripped, FenceJson)
                  THEN DropFirst(stripped, 7) ELSE stripped
        noFence == IF StartsWith(noJson, Fence)
                   THEN DropFirst(noJson, 3) ELSE noJson
        noTail == IF EndsWith(noFence, Fence)
                  THEN DropLast(noFence, 3) ELSE noFence
    IN  Strip(noTail)

\* json.loads: one document, white space around it allowed; anything else
\* raises JSONDecodeError
JsonLoads(text) ==
    LET body == Strip(text) IN
    IF Len(body) = 1 /\ IsDoc(body[1])
    THEN [ok |-> TRUE, value |-> body[1].doc]
    ELSE [ok |-> FALSE, value |-> Null]

----------------------------------------------------------------------------
(* analyze_report, lines 217-243: the AnalyzedReport built from the parsed  *)
(* response.  A step that raises (AttributeError, TypeError, a pydantic      *)
(* ValidationError) yields ok = FALSE.                                      *)

\* dict.get(key, default)
Get(d, key, default) == IF key \in DOMAIN d.f THEN d.f[key] ELSE default

\* pydantic: a str field takes a str only, an Optional field also None, a
\* List[str] field a list of strs only
ValidStr(v) == v.t = "str"
ValidOptStr(v) == v.t \in {"str", "null"}
ValidStrList(v) == v.t = "list" /\ \A i \in 1..Len(v.items) : v.items[i].t = "str"
ValidOptStrList(v) == v.t = "null" \/ ValidStrList(v)

\* "for p in ...": a list gives its items, a dict its keys and a str its
\* characters (strs, here the one str standing for each); any other value
\* is not iterable
Iterable(v) == v.t \in {"list", "obj", "str"}

RECURSIVE SetToSeq(_)
SetToSeq(S) ==
    IF S = {} THEN <<>>
    ELSE LET x == CHOOSE y \in S : TRUE IN <<x>> \o SetToSeq(S \ {x})

Items(v) ==
    CASE v.t = "list" -> v.items
      [] v.t = "obj" -> [i \in 1..Cardinality(DOMAIN v.f) |-> Str(SetToSeq(DOMAIN v.f)[i])]
      [] v.t = "str" -> IF v.s = "" THEN <<>> ELSE <<Str(v.s)>>
      [] OTHER -> <<>>

\* lines 219-227: p.get needs a dict; HealthParameter validates its fields
ParameterFields(p) ==
    [name |-> Get(p, "name", Str("Unknown")),
     value |-> Get(p, "value", Str("N/A")),
     unit |-> Get(p, "unit", Str("")),
     normal_range |-> Get(p, "normal_range", Str("N/A")),
     status |-> Get(p, "status", Str("normal")),
     explanation |-> Get(p, "explanation", Str("")),
     hindi_explanation |-> Get(p, "hindi_explanation", Null)]

ValidParameter(hp) ==
    /\ ValidStr(hp.name) /\ ValidStr(hp.value) /\ ValidStr(hp.unit)
    /\ ValidStr(hp.normal_range) /\ ValidStr(hp.status)
    /\ ValidStr(hp.explanation) /\ ValidOptStr(hp.hindi_explanation)

ParameterOk(p) == p.t = "obj" /\ ValidParameter(ParameterFields(p))

\* lines 231-241, the arguments given to AnalyzedReport
ReportFields(analysis, parameters, image_base64) ==
    [report_type |-> Get(analysis, "report_type", Str("blood_test")),
     title |-> Get(analysis, "title", Str("Medical Report")),
     summary |-> Get(analysis, "summary", Str("Report analyzed successfully")),
     hindi_summary |-> Get(analysis, "hindi_summary", Null),
     parameters |-> parameters,
     health_tips |-> Get(analysis, "health_tips", List(<<>>)),
     hindi_health_tips |-> Get(analysis, "hindi_health_tips", Null),
     overall_status |-> Get(analysis, "overall_status", Str("moderate")),
     image_base64 |-> Take(image_base64, ImagePrefixLen) \o <<".", ".", ".">>]

ValidReport(r) ==
    /\ ValidStr(r.report_type) /\ ValidStr(r.title) /\ ValidStr(r.summary)
    /\ ValidOptStr(r.hindi_summary) /\ ValidStrList(r.health_tips)
    /\ ValidOptStrList(r.hindi_health_tips) /\ ValidStr(r.overall_status)

NoReport == [ok |-> FALSE, report |-> <<>>]

BuildReport(analysis, image_base64) ==
    IF analysis.t # "obj" THEN NoReport
    ELSE LET ps == Get(analysis, "parameters", List(<<>>)) IN
         IF ~Iterable(ps) THEN NoReport
         ELSE IF \E i \in 1..Len(Items(ps)) : ~ParameterOk(Items(ps)[i])
         THEN NoReport
         ELSE LET parameters == [i \in 1..Len(Items(ps)) |->
                                    ParameterFields(Items(ps)[i])]
                  report == ReportFields(analysis, parameters, image_base64)
              IN  IF ValidReport(report)
                  THEN [ok |-> TRUE, report |-> report]
                  ELSE NoReport

----------------------------------------------------------------------------
(* POST /analyze-report, lines 206-249, with analyze_medical_report, lines  *)
(* 97-174.  api_key: EMERGENT_LLM_KEY is set; llm: what chat.send_message   *)
(* does, raise or return a completion text.                                 *)

LlmError == [raised |-> TRUE, text |-> <<>>]
LlmText(text) == [raised |-> FALSE, text |-> text]

\* image, api_key, llm: the inputs; detail: the HTTPException's detail;
\* calls: the calls of chat.send_message made; parsed: "yes" when json.loads
\* returned, "no" when it raised, "-" when it was not reached
AnalyzeResp(image_base64, api_key, llm, status, detail, calls, parsed, report) ==
    [op |-> "analyze", status |-> status, detail |-> detail,
     image |-> image_base64, api_key |-> api_key, llm |-> llm,
     calls |-> calls, parsed |-> parsed, report |-> report]

\* analyze_report without the check of line 211
AnalyzeOutcomeNoImageCheck(image_base64, api_key, llm) ==
    IF ~api_key
    THEN AnalyzeResp(image_base64, api_key, llm, 500, "LLM API key not configured",
                     0, "-", <<>>)
    ELSE IF llm.raised
    THEN AnalyzeResp(image_base64, api_key, llm, 500, "Error analyzing report",
                     1, "-", <<>>)
    ELSE LET result == JsonLoads(CleanResponse(llm.text)) IN
         IF ~result.ok
         THEN AnalyzeResp(image_base64, api_key, llm, 500,
                          "Failed to parse AI response", 1, "no", <<>>)
         ELSE LET built == BuildReport(result.value, image_base64) IN
              IF built.ok
              THEN AnalyzeResp(image_base64, api_key, llm, 200, "", 1, "yes",
                               built.report)
              ELSE AnalyzeResp(image_base64, api_key, llm, 500, "str(e)", 1,
                               "yes", <<>>)

\* analyze_medical_report answering a completion it cannot parse with an
\* empty analysis instead of raising
AnalyzeOutcomeEmptyOnParseError(image_base64, api_key, llm) ==
    IF image_base64 = <<>>
    THEN AnalyzeResp(image_base64, api_key, llm, 400, "No image provided",
                     0, "-", <<>>)
    ELSE IF ~api_key
    THEN AnalyzeResp(image_base64, api_key, llm, 500, "LLM API key not configured",
                     0, "-", <<>>)
    ELSE IF llm.raised
    THEN AnalyzeResp(image_base64, api_key, llm, 500, "Error analyzing report",
                     1, "-", <<>>)
    ELSE LET result == JsonLoads(CleanResponse(llm.text)) IN
         IF ~result.ok
         THEN AnalyzeResp(image_base64, api_key, llm, 200, "", 1, "no",
                          BuildReport(Obj(<<>>), image_base64).report)
         ELSE LET built == BuildReport(result.value, image_base64) IN
              IF built.ok
              THEN AnalyzeResp(image_base64, api_key, llm, 200, "", 1, "yes",
                               built.report)
              ELSE AnalyzeResp(image_base64, api_key, llm, 500, "str(e)", 1,
                               "yes", <<>>)

AnalyzeOutcome(image_base64, api_key, llm) ==
    IF image_base64 = <<>>
    THEN AnalyzeResp(image_base64, api_key, llm, 400, "No image provided",
                     0, "-", <<>>)
    ELSE IF ~api_key
    THEN AnalyzeResp(image_base64, api_key, llm, 500, "LLM API key not configured",
                     0, "-", <<>>)
    ELSE IF llm.raised
    THEN AnalyzeResp(image_base64, api_key, llm, 500, "Error analyzing report",
                     1, "-", <<>>)
    ELSE LET result == JsonLoads(CleanResponse(llm.text)) IN
         IF ~result.ok
         THEN AnalyzeResp(image_base64, api_key, llm, 500,
                          "Failed to parse AI response", 1, "no", <<>>)
         ELSE LET built == BuildReport(result.value, image_base64) IN
              IF built.ok
              THEN AnalyzeResp(image_base64, api_key, llm, 200, "", 1, "yes",
                               built.report)
              ELSE AnalyzeResp(image_base64, api_key, llm, 500, "str(e)", 1,
                               "yes", <<>>)

(* The inputs of the analysis *)

Images == { <<>>, <<"i", "m", "g">> }

FullParameter ==
    "name" :> Str("Hemoglobin") @@ "value" :> Str("13.5") @@
    "unit" :> Str("g/dL") @@ "normal_range" :> Str("12-16") @@
    "status" :> Str("low") @@ "explanation" :> Str("carries oxygen") @@
    "hindi_explanation" :> Str("hindi")

FullAnalysis ==
    "report_type" :> Str("diagnostic") @@ "title" :> Str("CBC") @@
    "summary" :> Str("fine") @@ "hindi_summary" :> Str("hindi") @@
    "parameters" :> List(<<Obj(FullParameter), Obj(Without(FullParameter, "unit"))>>) @@
    "health_tips" :> List(<<Str("rest")>>) @@
    "hindi_health_tips" :> List(<<Str("hindi")>>) @@
    "overall_status" :> Str("good")

ParameterLists ==
    { List(<<>>), List(<<Obj(FullParameter)>>), List(<<Obj(<<>>)>>),
      List(<<Obj(With(FullParameter, "value", Num(13)))>>),
      List(<<Obj(With(FullParameter, "name", Null))>>),
      List(<<Obj(With(FullParameter, "extra", Str("x"))), Obj(FullParameter)>>),
      List(<<Obj(FullParameter), Str("x")>>),
      Str(""), Str("abc"), Obj(<<>>), Obj("k" :> Num(1)) }

Documents ==
    { Obj(FullAnalysis), Obj(<<>>), Obj(With(FullAnalysis, "extra", Str("x"))),
      List(<<Obj(FullAnalysis)>>), Num(1), Str("ok"), Null }
    \cup { Obj(Without(FullAnalysis, k)) : k \in DOMAIN FullAnalysis }
    \cup { Obj(With(FullAnalysis, k, Null)) : k \in DOMAIN FullAnalysis }
    \cup { Obj(With(FullAnalysis, k, Num(5))) : k \in {"title", "parameters"} }
    \cup { Obj(With(FullAnalysis, "parameters", ps)) : ps \in ParameterLists }
    \cup { Obj(With(FullAnalysis, "health_tips", ts)) :
             ts \in { List(<<Num(1)>>), Str("rest") } }

NL == <<Ch("\n")>>

\* what stands before and after the body of a completion
Wrappers ==
    { <<<<>>, <<>>>>,
      <<NL, <<Ch(" ")>>>>,
      <<FenceJson \o NL, NL \o Fence>>,
      <<Fence \o NL, NL \o Fence \o NL>>,
      <<FenceJson, Fence>>,
      <<FenceJson \o Fence, Fence>>,
      <<FenceJson \o NL \o Fence \o NL, NL \o Fence>>,
      <<Fence \o <<Ch("j")>>, Fence \o Fence>> }

\* the bodies tried in every wrapper
Bodies ==
    { <<DocSym(Obj(FullAnalysis))>>, <<DocSym(List(<<>>))>>, <<Ch("x")>> }

\* an empty completion, and one with two documents
OtherTexts == { <<>>, <<DocSym(Obj(<<>>)), Ch(" "), DocSym(Obj(<<>>))>> }

\* documents of the other JSON types in a markdown code block
FencedDocuments ==
    { lead \o NL \o <<DocSym(d)>> \o NL \o Fence :
        lead \in {Fence, FenceJson}, d \in {Num(1), Str("ok"), Obj(<<>>)} }

ResponseTexts ==
    { <<DocSym(d)>> : d \in Documents }
    \cup { w[1] \o b \o w[2] : w \in Wrappers, b \in Bodies }
    \cup FencedDocuments
    \cup OtherTexts

\* the gateway is called only for a request with an image and a key
NotCalled == [raised |-> FALSE, text |-> <<>>]

LlmOutcomes == { LlmError } \cup { LlmText(text) : text \in ResponseTexts }

\* the requests, each with what the gateway does for it
AnalyzeRequests ==
    { <<image, api_key, NotCalled>> : image \in Images, api_key \in BOOLEAN }
    \cup { <<image, TRUE, llm>> : image \in Images \ { <<>> }, llm \in LlmOutcomes }

AnalyzeOutcomes ==
    [req \in AnalyzeRequests |-> AnalyzeOutcome(req[1], req[2], req[3])]

\* whether analyze_report gets as far as AnalyzedReport(...), line 231: the
\* completion is parsed and every HealthParameter of lines 218-229 is built
ParametersBuilt(analysis) ==
    /\ analysis.t = "obj"
    /\ Iterable(Get(analysis, "parameters", List(<<>>)))
    /\ \A i \in 1..Len(Items(Get(analysis, "parameters", List(<<>>)))) :
           ParameterOk(Items(Get(analysis, "parameters", List(<<>>)))[i])

ReportConstructed ==
    [req \in AnalyzeRequests |->
        /\ AnalyzeOutcomes[req].parsed = "yes"
        /\ ParametersBuilt(JsonLoads(CleanResponse(req[3].text)).value)]

\* the uuid4 values of analyzed reports, none of them the id of a report
\* of SampleReports
ReportUuids == {"u1", "u2"}

\* uuid4 gives an id met nowhere before: here, one that is not the id of
\* the report held in resp (the ids are interchangeable, so one is taken)
FreshUuid ==
    IF resp.op = "analyze" /\ resp.status = 200 /\ resp.report.id = "u1"
    THEN "u2"
    ELSE "u1"

\* lines 76 and 85: the default factories of AnalyzedReport give the report
\* its own id (uuid4) and created_at (utcnow)
WithDefaults(outcome, uuid, utcnow) ==
    IF outcome.status = 200
    THEN [outcome EXCEPT !.report = @ @@ [id |-> uuid, created_at |-> utcnow]]
    ELSE outcome

\* POST /analyze-report.  AnalyzedReport(...) runs its default factories,
\* and so reads the clock, whether or not the fields given to it pass
\* validation; a request that does not get that far reads no clock.
AnalyzeRequest(requests) ==
    \E req \in requests :
        /\ IF ReportConstructed[req]
           THEN \E utcnow \in ClockReadings :
                    /\ now' = utcnow
                    /\ IF AnalyzeOutcomes[req].status = 200
                       THEN resp' = WithDefaults(AnalyzeOutcomes[req], FreshUuid, utcnow)
                       ELSE resp' = AnalyzeOutcomes[req]
           ELSE /\ resp' = AnalyzeOutcomes[req]
                /\ UNCHANGED now
        /\ UNCHANGED <<USE_MONGODB, MEMORY_REPORTS, mongo, nextId, saving, deleted, cmp>>

AnalyzeReport == AnalyzeRequest(AnalyzeRequests)

\* one request for each way out of analyze_report: lines 212, 101, 174, 171,
\* 249 (from line 228 and from line 231) and 243
BranchRequests ==
    { << <<>>, TRUE, NotCalled >>,
      << <<"i", "m", "g">>, FALSE, NotCalled >>,
      << <<"i", "m", "g">>, TRUE, LlmError >>,
      << <<"i", "m", "g">>, TRUE, LlmText(<<Ch("x")>>) >>,
      << <<"i", "m", "g">>, TRUE, LlmText(<<DocSym(Num(1))>>) >>,
      << <<"i", "m", "g">>, TRUE, LlmText(<<DocSym(Obj(With(FullAnalysis, "title", Null)))>>) >>,
      << <<"i", "m", "g">>, TRUE, LlmText(<<DocSym(Obj(FullAnalysis))>>) >> }

\* analyze_report on the requests of BranchRequests
AnalyzeReportBranches == AnalyzeRequest(BranchRequests)

----------------------------------------------------------------------------
\* GET /api/, lines 177-183: mongodb_connected is USE_MONGODB
Root ==
    /\ resp' = Resp("root", 0, 200, <<>>, IF USE_MONGODB THEN "durable" ELSE "memory")
    /\ UNCHANGED <<USE_MONGODB, MEMORY_REPORTS, mongo, now, nextId, saving, deleted, cmp>>

\* GET /api/health, lines 185-204.  pingOk: db.command("ping") does not
\* raise.  path is the storage reported: "durable" for mongodb, "failed" for
\* memory after a failed ping, "memory" when no database is configured.
HealthStorage(pingOk) ==
    IF USE_MONGODB THEN (IF pingOk THEN "durable" ELSE "failed") ELSE "memory"

HealthCheck ==
    \E pingOk \in BOOLEAN :
        /\ resp' = Resp("health", 0, 200, <<>>, HealthStorage(pingOk))
        /\ UNCHANGED <<USE_MONGODB, MEMORY_REPORTS, mongo, now, nextId, saving, deleted, cmp>>

----------------------------------------------------------------------------
Next ==
    \/ SaveReport
    \/ SaveInserted
    \/ GetReports
    \/ GetReport
    \/ DeleteReport

Spec == Init /\ [][Next]_vars

\* the store under save, delete and compare requests
NextCompare ==
    \/ SaveReport
    \/ SaveInserted
    \/ DeleteReport
    \/ CompareStart
    \/ CompareFetch

SpecCompare == Init /\ [][NextCompare]_vars

\* analyses, with saves between them
NextAnalyze ==
    \/ AnalyzeReport
    \/ SaveReport
    \/ SaveInserted

SpecAnalyze == Init /\ [][NextAnalyze]_vars

\* analyses alone
NextAnalyzeOnly == AnalyzeReport

SpecAnalyzeOnly == Init /\ [][NextAnalyzeOnly]_vars

\* every handler of the application
NextAll ==
    \/ SaveReport
    \/ SaveInserted
    \/ GetReports
    \/ GetReport
    \/ DeleteReport
    \/ CompareStart
    \/ CompareFetch
    \/ AnalyzeReportBranches
    \/ Root
    \/ HealthCheck

SpecAll == Init /\ [][NextAll]_vars

----------------------------------------------------------------------------
(* The claims *)

StoredIds == IdsOf(MEMORY_REPORTS) \cup IdsOf(mongo)

\* C1: with the durable backend selected, a save whose insert fails is
\* answered 200 with the new SavedReport, which is appended to
\* MEMORY_REPORTS, and every later GET /reports contains it, whether or not
\* the database answers that call.  (With the durable backend selected
\* MEMORY_REPORTS holds exactly the reports of the failed inserts.)
C1_FallbackSaveListed ==
    USE_MONGODB =>
        /\ resp.op = "save" /\ resp.path = "fallback" =>
               /\ resp.status = 200
               /\ MEMORY_REPORTS # <<>>
               /\ MEMORY_REPORTS[Len(MEMORY_REPORTS)] = resp.reports[1]
        /\ resp.op = "list" =>
               /\ resp.status = 200
               /\ IdsOf(MEMORY_REPORTS) \subseteq IdsOf(resp.reports)

\* C2: GET /reports/{id} answers 200 with the SavedReport for every id a
\* save returned and no delete has removed, and 404 for every other id, in
\* either storage mode.  (A request whose database call raised is answered
\* 500 and is left aside.)
C2_GetById ==
    resp.op = "get" /\ resp.status # 500 =>
        IF resp.id \in Returned \ deleted
        THEN resp.status = 200 /\ IdsOf(resp.reports) = {resp.id}
        ELSE resp.status = 404

\* C3: for an id a save returned, the DELETE that finds no earlier successful
\* DELETE of it answers 200 and removes the report, and a DELETE after a
\* successful one answers 404, in either storage mode and also for a report
\* saved by the in-memory fallback.  (A request whose database call raised
\* is answered 500 and is left aside.)
C3_DeleteTwice ==
    resp.op = "delete" /\ resp.status # 500 /\ resp.id \in Returned =>
        IF resp.wasDeleted
        THEN resp.status = 404
        ELSE resp.status = 200 /\ resp.id \notin StoredIds

\* C4: when report R has just been saved and no other stored report bears
\* R's title, the next GET /reports holds exactly one entry with that title,
\* and its saved_at is not earlier than the clock just before the save.
OnlyTitled(saved_report) ==
    /\ \A i \in 1..Len(MEMORY_REPORTS) :
           MEMORY_REPORTS[i].report_data.title = saved_report.report_data.title
               => MEMORY_REPORTS[i].id = saved_report.id
    /\ \A i \in 1..Len(mongo) :
           mongo[i].report_data.title = saved_report.report_data.title
               => mongo[i].id = saved_report.id

TitledIn(reports, title) ==
    { i \in 1..Len(reports) : reports[i].report_data.title = title }

C4_SaveThenList ==
    [][ resp.op = "save" /\ resp'.op = "list" /\ OnlyTitled(resp.reports[1]) =>
            LET hits == TitledIn(resp'.reports, resp.reports[1].report_data.title) IN
            /\ Cardinality(hits) = 1
            /\ \A i \in hits : resp'.reports[i].saved_at >= resp.t0 ]_vars

\* C5: every GET /reports is answered 200 with its SavedReports in
\* descending order of saved_at, on the durable path, the in-memory path and
\* the fallback path, and the answer is made of the contents, at the time of
\* the call, of the store that path reads (at most ListLimit of them on the
\* durable path).
Descending(reports) ==
    \A i \in 1..(Len(reports) - 1) : reports[i].saved_at >= reports[i + 1].saved_at

SameReports(reports, stored) ==
    /\ Len(reports) = Len(stored)
    /\ \A i \in 1..Len(stored) : \E j \in 1..Len(reports) : reports[j] = stored[i]
    /\ \A i, j \in 1..Len(reports) : i # j => reports[i].id # reports[j].id

ListedFromDocuments(reports, docs) ==
    /\ Len(reports) = Min(Len(docs), ListLimit)
    /\ \A j \in 1..Len(reports) : \E i \in 1..Len(docs) :
           /\ reports[j].id = docs[i].id
           /\ isoformat(reports[j].saved_at) = docs[i].saved_at
           /\ reports[j].report_data.title = docs[i].report_data.title
           /\ reports[j].report_data.parameters = docs[i].report_data.parameters
           /\ isoformat(reports[j].report_data.created_at) = docs[i].report_data.created_at
    /\ \A i, j \in 1..Len(reports) : i # j => reports[i].id # reports[j].id

C5_ListSortedFresh ==
    resp.op = "list" =>
        /\ resp.status = 200
        /\ Descending(resp.reports)
        /\ resp.path \in {"durable", "memory", "fallback"}
        /\ resp.path = "durable" => ListedFromDocuments(resp.reports, mongo)
        /\ resp.path \in {"memory", "fallback"} =>
               SameReports(resp.reports, MEMORY_REPORTS)

\* a list whose order differs from the order the reports were saved in
C5_Witness ==
    /\ resp.op = "list"
    /\ Len(resp.reports) >= 2
    /\ resp.reports[1].saved_at > resp.reports[2].saved_at
    /\ resp.reports[1].id > resp.reports[2].id

\* C6: POST /compare-reports answers 400 to fewer than two ids, and 404 to
\* two or more ids of which fewer than two resolve to saved reports, with
\* the durable backend and with the in-memory backend alike.  (When nothing
\* is stored no id resolves.  A request whose database call raised is
\* answered 500 and is left aside.)
C6_CompareErrors ==
    resp.op = "compare" /\ resp.status # 0 /\ ~(USE_MONGODB /\ resp.status = 500) =>
        /\ resp.n < 2 => resp.status = 400
        /\ resp.n >= 2 /\ (StoredIds = {} \/ Len(resp.reports) < 2) =>
               resp.status = 404

\* C7: on a successful compare, parameter_trends maps each parameter name
\* of the resolved reports to one {date, value, status} entry per occurrence
\* of the name, with the report's saved_at and the parameter's value and
\* status, in the order the reports were resolved and, within a report, the
\* order of its parameters.
RECURSIVE Occurrences(_)
Occurrences(reports) ==
    IF reports = <<>> THEN <<>>
    ELSE [i \in 1..Len(Head(reports).report_data.parameters) |->
             [name |-> Head(reports).report_data.parameters[i].name,
              date |-> Head(reports).saved_at,
              value |-> Head(reports).report_data.parameters[i].value,
              status |-> Head(reports).report_data.parameters[i].status]]
         \o Occurrences(Tail(reports))

Timeline(occurrences, name) ==
    LET mine == SelectSeq(occurrences, LAMBDA e : e.name = name) IN
    [i \in 1..Len(mine) |->
        [date |-> mine[i].date, value |-> mine[i].value, status |-> mine[i].status]]

C7_ParameterTrends ==
    resp.op = "compare" /\ resp.status = 200 =>
        LET occurrences == Occurrences(resp.reports) IN
        /\ DOMAIN resp.trends = { occurrences[i].name : i \in 1..Len(occurrences) }
        /\ \A name \in DOMAIN resp.trends :
               resp.trends[name] = Timeline(occurrences, name)

\* two different reports sharing Hemoglobin, the later saved one resolved
\* first
C7_Witness ==
    /\ resp.op = "compare"
    /\ resp.status = 200
    /\ Len(resp.reports) = 2
    /\ StrLess(resp.reports[2].saved_at, resp.reports[1].saved_at)
    /\ "Hemoglobin" \in DOMAIN resp.trends
    /\ Len(resp.trends["Hemoglobin"]) >= 2
    /\ resp.trends["Hemoglobin"][1].value # resp.trends["Hemoglobin"][Len(resp.trends["Hemoglobin"])].value

\* C8: POST /analyze-report with an empty image_base64 is answered 400
\* "No image provided", and chat.send_message is not called for it.
C8_EmptyImage ==
    resp.op = "analyze" /\ resp.image = <<>> =>
        /\ resp.status = 400
        /\ resp.detail = "No image provided"
        /\ resp.calls = 0

\* an empty image sent while the key is configured
C8_Witness ==
    /\ resp.op = "analyze"
    /\ resp.image = <<>>
    /\ resp.api_key
    /\ resp.status = 400

\* C9: an analysis whose completion text json.loads cannot parse is answered
\* 500, and leaves MEMORY_REPORTS and the durable store as they were.
C9_UnparseableNoSave ==
    [][ resp'.op = "analyze" /\ resp'.parsed = "no" =>
            /\ resp'.status = 500
            /\ MEMORY_REPORTS' = MEMORY_REPORTS
            /\ mongo' = mongo ]_vars

\* an unparseable completion met with a report in store
C9_Witness ==
    /\ resp.op = "analyze"
    /\ resp.parsed = "no"
    /\ resp.status = 500
    /\ StoredIds # {}

\* C10: every completion that json.loads parses is answered 200 with a
\* report.
C10_ParseableYieldsReport ==
    resp.op = "analyze" /\ resp.parsed = "yes" => resp.status = 200

\* C11: for a completion that parses to an object, the answer is a report in
\* which each schema field absent from the object has its default, each
\* schema field present has the object's value, an absent hindi field is
\* None, no field outside the schema appears, and parameters has one entry
\* per element of the object's parameters list, in its order, built by the
\* same rule.
Parsed(r) == JsonLoads(CleanResponse(r.llm.text)).value

TopLevelDefaults ==
    "report_type" :> Str("blood_test") @@ "title" :> Str("Medical Report") @@
    "summary" :> Str("Report analyzed successfully") @@
    "health_tips" :> List(<<>>) @@ "overall_status" :> Str("moderate") @@
    "hindi_summary" :> Null @@ "hindi_health_tips" :> Null

ElementDefaults ==
    "name" :> Str("Unknown") @@ "value" :> Str("N/A") @@ "unit" :> Str("") @@
    "normal_range" :> Str("N/A") @@ "status" :> Str("normal") @@
    "explanation" :> Str("") @@ "hindi_explanation" :> Null

\* out has exactly the fields of defaults (and those of others), each with
\* the value of the object when it has the field and its default otherwise
Normalised(out, object, defaults, others) ==
    /\ DOMAIN out = (DOMAIN defaults) \cup others
    /\ \A k \in DOMAIN defaults :
           out[k] = IF k \in DOMAIN object.f THEN object.f[k] ELSE defaults[k]

SameParameters(parameters, object) ==
    LET ps == IF "parameters" \in DOMAIN object.f
              THEN object.f["parameters"] ELSE List(<<>>)
    IN  /\ ps.t = "list"
        /\ Len(parameters) = Len(ps.items)
        /\ \A i \in 1..Len(ps.items) :
               /\ ps.items[i].t = "obj"
               /\ Normalised(parameters[i], ps.items[i], ElementDefaults, {})

C11_Defaults ==
    resp.op = "analyze" /\ resp.parsed = "yes" /\ Parsed(resp).t = "obj" =>
        /\ resp.status = 200
        /\ Normalised(resp.report, Parsed(resp), TopLevelDefaults,
                      {"parameters", "image_base64", "id", "created_at"})
        /\ SameParameters(resp.report.parameters, Parsed(resp))

\* C12: a completion made of a document D between a leading fence marker,
\* tagged json or not, and a trailing fence marker (line breaks around the
\* markers allowed) is parsed, to the same value as the completion D alone,
\* and the request is answered as it is for D alone.
DocsIn(text) == { text[i].doc : i \in { j \in 1..Len(text) : IsDoc(text[j]) } }

Fenced(text, d) ==
    \E lead \in {Fence, FenceJson}, a, b, c \in {<<>>, NL} :
        text = lead \o a \o <<DocSym(d)>> \o b \o Fence \o c

C12_FencedSameAsBare ==
    resp.op = "analyze" /\ resp.calls = 1 /\ ~resp.llm.raised =>
        \A d \in DocsIn(resp.llm.text) :
            Fenced(resp.llm.text, d) =>
                LET bare == AnalyzeOutcome(resp.image, resp.api_key,
                                           LlmText(<<DocSym(d)>>))
                IN  /\ resp.parsed = "yes"
                    /\ Parsed(resp) = d
                    /\ JsonLoads(CleanResponse(<<DocSym(d)>>)) = [ok |-> TRUE, value |-> d]
                    /\ resp.status = bare.status
                    /\ resp.status = 200 =>
                           \A k \in DOMAIN bare.report : resp.report[k] = bare.report[k]

\* the full analysis in a block tagged json, answered with its report
C12_Witness ==
    /\ resp.op = "analyze"
    /\ Fenced(resp.llm.text, Obj(FullAnalysis))
    /\ StartsWith(resp.llm.text, FenceJson)
    /\ resp.status = 200
    /\ resp.report.title = Str("CBC")

\* C14: fence stripping removes at most one leading and at most one trailing
\* fence marker: the text handed to json.loads is the stripped completion
\* less one leading marker (tagged json or not) and one trailing marker,
\* where it has them, stripped again; of two consecutive leading markers the
\* second stays.
StripOneLeading(text) ==
    IF StartsWith(text, FenceJson) THEN DropFirst(text, Len(FenceJson))
    ELSE IF StartsWith(text, Fence) THEN DropFirst(text, Len(Fence))
    ELSE text

StripOneTrailing(text) ==
    IF EndsWith(text, Fence) THEN DropLast(text, Len(Fence)) ELSE text

C14_OneMarkerEachSide ==
    resp.op = "analyze" /\ resp.calls = 1 /\ ~resp.llm.raised =>
        /\ CleanResponse(resp.llm.text) =
               Strip(StripOneTrailing(StripOneLeading(Strip(resp.llm.text))))
        /\ StartsWith(Strip(resp.llm.text), FenceJson \o Fence) =>
               StartsWith(CleanResponse(resp.llm.text), Fence)

\* C13: with the durable backend selected, GET and DELETE /reports/{id}
\* leave MEMORY_REPORTS as it was; a call whose database call raised is
\* answered 500 and changes nothing; any other call is answered 200 exactly
\* when db.reports holds the id and 404 exactly when it does not, whatever
\* MEMORY_REPORTS holds.  (The step that answers a request sets resp.)
C13_NoMemoryForGetDelete ==
    [][ USE_MONGODB /\ resp' # resp /\ resp'.op \in {"get", "delete"} =>
            /\ MEMORY_REPORTS' = MEMORY_REPORTS
            /\ resp'.path \in {"durable", "failed"}
            /\ resp'.path = "failed" => resp'.status = 500 /\ mongo' = mongo
            /\ resp'.path = "durable" =>
                   /\ resp'.status = IF resp'.id \in IdsOf(mongo) THEN 200 ELSE 404
                   /\ resp'.op = "get" /\ resp'.status = 200 =>
                          \E i \in 1..Len(mongo) :
                              resp'.reports = <<FromDocument(PopId(mongo[i]))>> ]_vars

\* the database fails on a GET of a report that MEMORY_REPORTS holds
C13_Witness ==
    /\ USE_MONGODB
    /\ resp.op = "get"
    /\ resp.path = "failed"
    /\ resp.status = 500
    /\ resp.id \in IdsOf(MEMORY_REPORTS)

\* C15: the durable store and MEMORY_REPORTS never hold the same report, and
\* a document enters the durable store only in the save request of its own
\* report, when that request's insert succeeds; a report saved by the
\* fallback stays out of the durable store for good.
C15_NoReconciliation ==
    /\ [](IdsOf(mongo) \cap IdsOf(MEMORY_REPORTS) = {})
    /\ [][ /\ \A id \in IdsOf(mongo') \ IdsOf(mongo) :
                  /\ resp'.op = "save"
                  /\ resp'.path = "durable"
                  /\ resp'.id = id
                  /\ id \notin Returned
           /\ USE_MONGODB => \A id \in IdsOf(MEMORY_REPORTS) :
                  id \in IdsOf(MEMORY_REPORTS') /\ id \notin IdsOf(mongo') ]_vars

\* an insert succeeds after an earlier one failed
C15_Witness ==
    /\ USE_MONGODB
    /\ resp.op = "save"
    /\ resp.path = "durable"
    /\ MEMORY_REPORTS # <<>>
    /\ \A id \in IdsOf(MEMORY_REPORTS) : id < resp.id
    /\ IdsOf(mongo) = {resp.id}

\* C16: with the in-memory backend, in every order in which save, list, get
\* and delete requests are handled, MEMORY_REPORTS holds exactly the reports
\* saved and not deleted, once each; of the DELETEs of a saved id exactly
\* the first is answered 200 and the others 404; and a list is made of
\* exactly the reports held when it ran.
C16_MemoryInterleavings ==
    ~USE_MONGODB =>
        /\ IdsOf(MEMORY_REPORTS) = Returned \ deleted
        /\ Len(MEMORY_REPORTS) = Cardinality(IdsOf(MEMORY_REPORTS))
        /\ resp.op = "delete" /\ resp.id \in Returned =>
               resp.status = IF resp.wasDeleted THEN 404 ELSE 200
        /\ resp.op = "delete" /\ resp.id \notin Returned => resp.status = 404
        /\ resp.op = "list" =>
               /\ SameReports(resp.reports, MEMORY_REPORTS)
               /\ IdsOf(resp.reports) = Returned \ deleted

\* the second DELETE of a report, another report still held
C16_Witness ==
    /\ ~USE_MONGODB
    /\ resp.op = "delete"
    /\ resp.wasDeleted
    /\ resp.status = 404
    /\ MEMORY_REPORTS # <<>>
    /\ nextId > 2

\* C17: the stores change only through save and delete.  A save adds one
\* SavedReport, with an id no save returned before (whatever the embedded
\* report is), at the end of exactly one store and leaves the entries
\* already stored as they were; a DELETE answered 200 removes the entry with
\* its id and no other; any other step (analyze, list, get, compare, root,
\* health, a DELETE not answered 200) leaves both stores as they were.
\* (The step in which a save stores its report is the one that returns its
\* id; the step of a DELETE answered 200 is the one that adds to deleted.)
LacksId(s, id) == SelectSeq(s, LAMBDA e : e.id # id)

SaveEffect ==
    /\ resp'.status = 200
    /\ resp'.id \notin Returned
    /\ resp'.id \notin StoredIds
    /\ resp'.reports[1].id = resp'.id
    /\ resp'.reports[1].report_data \in SampleReports
    /\ \/ /\ MEMORY_REPORTS' = Append(MEMORY_REPORTS, resp'.reports[1])
          /\ mongo' = mongo
       \/ /\ MEMORY_REPORTS' = MEMORY_REPORTS
          /\ Len(mongo') = Len(mongo) + 1
          /\ SubSeq(mongo', 1, Len(mongo)) = mongo
          /\ FromDocument(PopId(mongo'[Len(mongo')])) = resp'.reports[1]

DeleteEffect ==
    /\ resp'.id \in StoredIds
    /\ MEMORY_REPORTS' = LacksId(MEMORY_REPORTS, resp'.id)
    /\ mongo' = LacksId(mongo, resp'.id)
    /\ Len(MEMORY_REPORTS') + Len(mongo') = Len(MEMORY_REPORTS) + Len(mongo) - 1

SaveAnswered == resp'.op = "save" /\ resp'.id \notin Returned

DeleteAnswered == resp'.op = "delete" /\ resp'.status = 200 /\ deleted' # deleted

C17_StoresFrame ==
    [][ /\ SaveAnswered => SaveEffect
        /\ DeleteAnswered => DeleteEffect
        /\ ~SaveAnswered /\ ~DeleteAnswered =>
               MEMORY_REPORTS' = MEMORY_REPORTS /\ mongo' = mongo ]_vars

\* the same AnalyzedReport saved twice, held as two entries
C17_Witness ==
    /\ resp.op = "save"
    /\ Len(MEMORY_REPORTS) = 2
    /\ MEMORY_REPORTS[1].report_data = MEMORY_REPORTS[2].report_data
    /\ MEMORY_REPORTS[1].id # MEMORY_REPORTS[2].id

====
